---- MODULE Spec2Model ----
(***************************************************************************)
(* chartview: the two Streamlit dashboards of src/, streamlit_app.py (the  *)
(* Upstox variant, industry / search / period filters, 3 charts per page)  *)
(* and lw_chart.py (the yfinance variant, one table selector, 10 charts    *)
(* per page).  A script run is one atomic step; session_state, the memo of *)
(* st.cache_data and what the run put on the page are the state.           *)
(*                                                                         *)
(* Abstractions: a bar is its close and volume (time/open/high/low are     *)
(* copied into chart_data and never read by the metrics); float64          *)
(* arithmetic is exact rational arithmetic plus inf / -inf / nan; None is  *)
(* a record with is_none = TRUE.                                           *)
(***************************************************************************)
EXTENDS Integers, Sequences, FiniteSets, TLC

VARIABLES
    app,              \* which script the server runs
    session_state,    \* st.session_state: key -> value, absent keys absent
    widgets,          \* values the widgets return in a run
    pc,               \* "start" | "idle" | "rerun" (st.rerun() pending)
    view,             \* what the last run computed and put on the page
    shown,            \* the chart columns the last run rendered, in order
    cache,            \* st.cache_data memo of load_chart_data
    v_call            \* validate_period_interval: last call and its result

vars == <<app, session_state, widgets, pc, view, shown, cache, v_call>>

----------------------------------------------------------------------------
(* Bounds *)

\* longest bar sequence a fetch returns
MaxBars == 3
\* cap on current_page (streamlit_app's Next can run away, see C10)
MaxPage == 3

----------------------------------------------------------------------------
(* Values *)

StreamlitApp == "streamlit_app"
LwChart == "lw_chart"
Apps == {StreamlitApp, LwChart}

\* Python's None where a string is expected
NoneStr == "None"

\* TIME_PERIODS: label -> days; YTD maps to None (days = -1 stands for None)
TIME_PERIODS ==
    [p \in {"1M", "3M", "6M", "YTD", "1Y", "2Y", "5Y", "MAX"} |->
        CASE p = "1M" -> 30
          [] p = "3M" -> 90
          [] p = "6M" -> 180
          [] p = "YTD" -> -1
          [] p = "1Y" -> 365
          [] p = "2Y" -> 730
          [] p = "5Y" -> 1825
          [] p = "MAX" -> 3650]

INTERVALS ==
    [i \in {"Daily", "Weekly", "Monthly"} |->
        CASE i = "Daily" -> "day"
          [] i = "Weekly" -> "week"
          [] i = "Monthly" -> "month"]

\* the time_period argument of load_chart_data: a label, a number of days or None
StrArg(s) == [tag |-> "str", s |-> s, n |-> 0]
IntArg(n) == [tag |-> "int", s |-> "", n |-> n]
NoneArg == [tag |-> "None", s |-> "", n |-> 0]

\* TIME_PERIODS[selected_period] as the caller of columns 2 and 3 passes it
DaysArg(period) ==
    IF TIME_PERIODS[period] = -1 THEN NoneArg ELSE IntArg(TIME_PERIODS[period])

----------------------------------------------------------------------------
(* validate_period_interval *)

\* variant: the Monthly branch left out
validate_period_interval_NoMonthly(period, interval) ==
    IF interval = "Weekly" /\ period \notin {"1Y", "2Y", "5Y", "MAX"}
    THEN "1Y"
    ELSE period

validate_period_interval(period, interval) ==
    IF interval = "Weekly"
    THEN IF period \notin {"1Y", "2Y", "5Y", "MAX"} THEN "1Y" ELSE period
    ELSE IF interval = "Monthly"
         THEN IF period \notin {"5Y", "MAX"} THEN "5Y" ELSE period
         ELSE period

----------------------------------------------------------------------------
(* Bars and the fetch *)

\* the bars a feed serves: a zero close, two ordinary closes, two volumes
BarValues ==
    { [close |-> 0, volume |-> 7],
      [close |-> 100, volume |-> 7],
      [close |-> 110, volume |-> 9] }

BarSeqs == UNION { [1..n -> BarValues] : n \in 0..MaxBars }

HTTP_OK == 200

\* what one fetch attempt can come to: an exception (network error, missing
\* secret, malformed body), an HTTP status with its data, or (yfinance) a frame
FetchRaise == [kind |-> "raise", status |-> 0, bars |-> <<>>]
FetchStatus(code) == [kind |-> "response", status |-> code, bars |-> <<>>]
FetchData(bars) == [kind |-> "response", status |-> HTTP_OK, bars |-> bars]
NoFetch == [kind |-> "none", status |-> 0, bars |-> <<>>]

Outcomes(a) ==
    {FetchRaise} \cup { FetchData(b) : b \in BarSeqs }
        \cup (IF a = StreamlitApp THEN {FetchStatus(404)} ELSE {})

----------------------------------------------------------------------------
(* float64 values of daily_change *)

RECURSIVE Gcd(_, _)
Gcd(a, b) == IF b = 0 THEN a ELSE Gcd(b, a % b)

Abs(x) == IF x < 0 THEN -x ELSE x

\* the number num/den (den > 0) in lowest terms
Num(num, den) ==
    LET g == Gcd(Abs(num), den)
    IN [kind |-> "num", num |-> num \div g, den |-> den \div g]

Inf == [kind |-> "inf", num |-> 0, den |-> 1]
NegInf == [kind |-> "-inf", num |-> 0, den |-> 1]
NaN == [kind |-> "nan", num |-> 0, den |-> 1]

\* numpy's x / y for finite x, y >= 0: division by zero warns and gives inf or nan
TrueDivide(x, y) ==
    IF y # 0 THEN Num(x, y)
    ELSE IF x > 0 THEN Inf
    ELSE IF x < 0 THEN NegInf
    ELSE NaN

\* f * 100
Times100(f) == IF f.kind = "num" THEN Num(f.num * 100, f.den) ELSE f

----------------------------------------------------------------------------
(* load_chart_data *)

\* prev_price is the local of the call, kept in the record so that it can be
\* observed; the caller is handed chart_data, current_price, volume, daily_change
NoneResult ==
    [is_none |-> TRUE, chart_data |-> <<>>, current_price |-> 0,
     prev_price |-> 0, volume |-> 0, daily_change |-> Num(0, 1)]

\* df['close'].iloc[-1]
current_price_of(bars) == bars[Len(bars)].close

\* variant: the first close instead of the one before the last
prev_price_first(bars) == bars[1].close

\* variant: the price the previous load reported instead of this frame's
prev_price_stale(bars) ==
    IF Len(shown) > 0 /\ ~shown[1].result.is_none
    THEN shown[1].result.current_price
    ELSE bars[Len(bars) - 1].close

\* df['close'].iloc[-2]
prev_price_of(bars) == bars[Len(bars) - 1].close

\* ((current_price - prev_price) / prev_price) * 100
daily_change_of(cur, prev) == Times100(TrueDivide(cur - prev, prev))

\* df['volume'].iloc[-1]
volume_of(bars) == bars[Len(bars)].volume

\* the metrics block: iloc[-2] of a one-row column raises IndexError, which the
\* enclosing except turns into None
Metrics(bars) ==
    IF Len(bars) < 2
    THEN NoneResult
    ELSE [is_none |-> FALSE,
          chart_data |-> bars,
          current_price |-> current_price_of(bars),
          prev_price |-> prev_price_of(bars),
          volume |-> volume_of(bars),
          daily_change |-> daily_change_of(current_price_of(bars), prev_price_of(bars))]

\* get_date_range(time_period) raises KeyError unless the argument is a label
DateRangeOk(arg) == arg.tag = "str" /\ arg.s \in DOMAIN TIME_PERIODS

\* how many times one load calls the fetch
FetchAttempts(outcome) == IF outcome.kind = "none" THEN 0 ELSE 1

\* `if not data: return None` / `if not df.empty:`
EmptyGuard(bars) == Len(bars) = 0

\* the body of load_chart_data once the fetch has come to `outcome`
LoadBody(outcome) ==
    IF outcome.kind # "response" THEN NoneResult
    ELSE IF outcome.status # HTTP_OK THEN NoneResult
    ELSE IF EmptyGuard(outcome.bars) THEN NoneResult
    ELSE Metrics(outcome.bars)

\* the memo key st.cache_data makes of the arguments
CacheKey(a, symbol, arg, interval) ==
    IF a = StreamlitApp
    THEN [symbol |-> symbol, arg |-> arg, interval |-> interval]
    ELSE [symbol |-> symbol, arg |-> NoneArg, interval |-> ""]

Cached(c, key) == \E e \in c : e.key = key
CacheGet(c, key) == (CHOOSE e \in c : e.key = key).value

\* whether a call with this key reaches the fetch
NeedsFetch(a, c, key) ==
    /\ ~Cached(c, key)
    /\ a = StreamlitApp => DateRangeOk(key.arg)

----------------------------------------------------------------------------
(* One chart column: the caller's load_chart_data call and what it draws *)

\* variant: the chart is built without looking at the result
DisplayAlways(a, result) == "chart"

\* `if result is not None: create_chart(...); chart.load()` and, in
\* streamlit_app only, `else: st.warning("No data available ...")`
Display(a, result) ==
    IF ~result.is_none THEN "chart"
    ELSE IF a = StreamlitApp THEN "warning"
    ELSE "blank"

\* the time_period argument column `col` passes: streamlit_app's first column
\* passes the label, its second and third pass TIME_PERIODS[selected_period]
ColumnArg(a, col, period) ==
    IF a # StreamlitApp THEN NoneArg
    ELSE IF col = 1 THEN StrArg(period)
    ELSE DaysArg(period)

ColumnKey(a, col, symbol, period, interval) ==
    CacheKey(a, symbol, ColumnArg(a, col, period),
             IF a = StreamlitApp THEN INTERVALS[interval] ELSE "")

\* load_chart_data behind st.cache_data: a memo hit returns the stored value;
\* otherwise the body runs (get_date_range may raise before any fetch) and its
\* return value, None included, is stored
LoadResult(a, c, key, outcome) ==
    IF Cached(c, key) THEN CacheGet(c, key)
    ELSE IF a = StreamlitApp /\ ~DateRangeOk(key.arg) THEN NoneResult
    ELSE LoadBody(outcome)

CacheAfter(c, key, result) ==
    IF Cached(c, key) THEN c ELSE c \cup {[key |-> key, value |-> result]}

\* the record of one rendered column
Column(a, c, col, symbol, period, interval, outcome) ==
    LET key == ColumnKey(a, col, symbol, period, interval)
        result == LoadResult(a, c, key, outcome)
    IN [symbol |-> symbol,
        col |-> col,
        key |-> key,
        hit |-> Cached(c, key),
        outcome |-> outcome,
        attempts |-> FetchAttempts(outcome),
        result |-> result,
        display |-> Display(a, result)]

----------------------------------------------------------------------------
(* Initial state: a fresh server process and a fresh browser session *)

NoView ==
    [computed |-> FALSE, reset |-> FALSE, total_pages |-> 0, page |-> 0,
     page_before |-> 0,
     start_idx |-> 0, end_idx |-> 0, n_stocks |-> 0,
     prev_disabled |-> FALSE, next_disabled |-> FALSE, controls |-> FALSE]

NoCall == [period |-> "", interval |-> "", result |-> "", pass |-> 0]

NoWidgets ==
    [selected_industry |-> "", selected_interval |-> "", period_choice |-> "",
     search_term |-> "", selected_table |-> "", clicked |-> ""]

Init ==
    /\ app \in Apps
    /\ session_state = << >>
    /\ widgets = NoWidgets
    /\ pc = "start"
    /\ view = NoView
    /\ shown = << >>
    /\ cache = {}
    /\ v_call = NoCall

----------------------------------------------------------------------------
(* SpecLoad: one chart column at a time, against any feed *)

LoadSymbols == {"TCS", "SBIN"}
LoadPeriods == {"YTD", "1Y"}

\* streamlit_app draws three columns per row, lw_chart two
Columns(a) == IF a = StreamlitApp THEN 1..3 ELSE 1..2

\* the symbols and settings one column may be drawn with: streamlit_app varies
\* the period for one symbol, lw_chart (no settings) varies the symbol
LoadInputs(a) ==
    IF a = StreamlitApp
    THEN { <<"TCS", p>> : p \in LoadPeriods }
    ELSE { <<s, "YTD">> : s \in LoadSymbols }

LoadColumn ==
    \E inp \in LoadInputs(app), col \in Columns(app) :
        LET key == ColumnKey(app, col, inp[1], inp[2], "Daily")
        IN \E outcome \in (IF NeedsFetch(app, cache, key)
                           THEN Outcomes(app) ELSE {NoFetch}) :
            LET e == Column(app, cache, col, inp[1], inp[2], "Daily", outcome)
            IN /\ shown' = <<e>>
               /\ cache' = CacheAfter(cache, key, e.result)
               /\ UNCHANGED <<app, session_state, widgets, pc, view, v_call>>

NextLoad == LoadColumn

SpecLoad == Init /\ [][NextLoad]_vars

----------------------------------------------------------------------------
(* The database and the feed the dashboards run against *)

\* table nse of stocks.db in comp_name order; `terms` are the non-empty search
\* terms that comp_name or symbol contains, case ignored
NSE ==
    << [symbol |-> "AXISBANK", comp_name |-> "Axis Bank", industry |-> "Bank", terms |-> {"bank"}],
       [symbol |-> "HDFCBANK", comp_name |-> "HDFC Bank", industry |-> "Bank", terms |-> {"bank"}],
       [symbol |-> "ICICIBANK", comp_name |-> "ICICI Bank", industry |-> "Bank", terms |-> {"bank"}],
       [symbol |-> "SBIN", comp_name |-> "State Bank of India", industry |-> "Bank", terms |-> {"bank"}],
       [symbol |-> "TCS", comp_name |-> "Tata Consultancy", industry |-> "IT", terms |-> {}] >>

AllIndustries == "All Industries"

\* get_industries(): the selectbox options
Industries == <<AllIndustries, "Bank", "IT">>

\* what the user may type into the search box
SearchTerms == {"", "bank", "zz"}

\* get_tables(): the tables of stocks.db lw_chart offers, and their rows in
\* symbol order (symbols only: stock_name is display text)
Tables == <<"nifty", "watch", "fresh">>

TableRows(t) ==
    CASE t = "nifty" ->
           << "ACC", "AXISBANK", "BPCL", "CIPLA", "DLF", "GAIL", "HDFCBANK",
              "INFY", "ITC", "LT", "ONGC", "SBIN", "TCS" >>
      [] t = "watch" -> << "SBIN", "TCS" >>
      [] OTHER -> << >>

\* what the remote feed serves for a symbol while the dashboards run
Feed(symbol) ==
    CASE symbol \in {"SBIN", "GAIL"} -> FetchRaise
      [] symbol \in {"BPCL"} -> FetchData(<< >>)
      [] symbol \in {"CIPLA"} -> FetchData(<< [close |-> 100, volume |-> 7] >>)
      [] symbol \in {"DLF"} ->
           FetchData(<< [close |-> 0, volume |-> 7], [close |-> 100, volume |-> 9] >>)
      [] OTHER ->
           FetchData(<< [close |-> 100, volume |-> 7], [close |-> 110, volume |-> 9] >>)

----------------------------------------------------------------------------
(* session_state *)

Has(ss, k) == k \in DOMAIN ss
Get(ss, k, default) == IF k \in DOMAIN ss THEN ss[k] ELSE default
Set(ss, k, v) == (k :> v) @@ ss

Min(a, b) == IF a < b THEN a ELSE b

\* math.ceil(n / per)
Ceil(n, per) == (n + per - 1) \div per

----------------------------------------------------------------------------
(* The chart rows of a run *)

\* what the fetch of a column comes to while the dashboards run
FeedOutcome(a, c, key, symbol) ==
    IF NeedsFetch(a, c, key) THEN Feed(symbol) ELSE NoFetch

\* one column drawn with the memo as it stands
DrawOne(a, c, symbol, col, period, interval) ==
    Column(a, c, col, symbol, period, interval,
           FeedOutcome(a, c, ColumnKey(a, col, symbol, period, interval), symbol))

PutFirst(e, rest) == [columns |-> <<e>> \o rest.columns, cache |-> rest.cache]

\* the columns of a run drawn left to right, the memo threaded through them:
\* `slots` are <<symbol, column>> pairs
RECURSIVE DrawColumns(_, _, _, _, _)
RECURSIVE DrawFrom(_, _, _, _, _, _)
DrawFrom(a, c, slots, period, interval, e) ==
    PutFirst(e, DrawColumns(a, CacheAfter(c, e.key, e.result), Tail(slots),
                            period, interval))

DrawColumns(a, c, slots, period, interval) ==
    IF Len(slots) = 0 THEN [columns |-> << >>, cache |-> c]
    ELSE DrawFrom(a, c, slots, period, interval,
                  DrawOne(a, c, Head(slots)[1], Head(slots)[2], period, interval))

\* what a run leaves on the page; page_before is current_page as the run found
\* it (0: absent), page is current_page at the page indices
View(computed, reset, n_stocks, total_pages, page, start_idx, end_idx, disabled) ==
    [computed |-> computed, reset |-> reset, total_pages |-> total_pages,
     page |-> page, page_before |-> Get(session_state, "current_page", 0),
     start_idx |-> start_idx, end_idx |-> end_idx,
     n_stocks |-> n_stocks, prev_disabled |-> disabled[1],
     next_disabled |-> disabled[2], controls |-> computed]

----------------------------------------------------------------------------
(* streamlit_app.py: one script run *)

CHARTS_PER_PAGE == 3

\* the options of the "Select time period" box and its default
period_options(interval) ==
    IF interval = "Monthly" THEN <<"5Y", "MAX">>
    ELSE IF interval = "Weekly" THEN <<"1Y", "2Y", "5Y", "MAX">>
    ELSE <<"1M", "3M", "6M", "YTD", "1Y", "2Y", "5Y", "MAX">>

default_period(interval) ==
    IF interval \in {"Monthly", "Weekly"}
    THEN period_options(interval)[1]
    ELSE period_options(interval)[4]

\* get_stocks_by_industry(industry, search_term)
get_stocks_by_industry(industry, search_term) ==
    LET InIndustry(r) == industry = AllIndustries \/ r.industry = industry
        Found(r) == search_term = "" \/ search_term \in r.terms
    IN SelectSeq(SelectSeq(NSE, InIndustry), Found)

\* the three comparisons of the sidebar against the remembered selections
\* (previous_industry starts as None, previous_search as "")
FilterChanged(ss, w, selected_period) ==
    \/ selected_period # Get(ss, "last_selected_period", NoneStr)
    \/ Get(ss, "previous_industry", NoneStr) # w.selected_industry
    \/ Get(ss, "previous_search", "") # w.search_term

\* variant: the sidebar remembers the selection and keeps the page
PageAfterSidebarKept(ss, changed) ==
    IF Has(ss, "current_page") THEN ss["current_page"] ELSE 1

\* current_page once the sidebar and `if 'current_page' not in st.session_state`
\* have run: 1 when a filter changed or the key was absent
PageAfterSidebar(ss, changed) ==
    IF changed THEN 1
    ELSE IF Has(ss, "current_page") THEN ss["current_page"]
    ELSE 1

\* session_state after the sidebar: every remembered selection is the current one
Remember(ss, w, selected_period, page) ==
    Set(Set(Set(Set(ss, "previous_industry", w.selected_industry),
                "last_selected_period", selected_period),
            "previous_search", w.search_term),
        "current_page", page)

\* the <<symbol, column>> pairs of `for i in range(start_idx, end_idx, 3)`
StreamlitSlots(stocks, start_idx, end_idx) ==
    IF start_idx >= end_idx THEN << >>
    ELSE [k \in 1..Cardinality({j \in 0..2 : start_idx + j < Len(stocks)}) |->
            <<stocks[start_idx + k].symbol, k>>]

\* st.rerun(): the run ends at the button, before the page indices
StreamlitAbort(ss, reset, n_stocks, total_pages, page, new_page) ==
    /\ session_state' = Set(ss, "current_page", new_page)
    /\ pc' = "rerun"
    /\ view' = View(FALSE, reset, n_stocks, total_pages, page, 0, 0,
                    <<page = 1, page = total_pages>>)
    /\ shown' = << >>
    /\ cache' = cache

\* what DrawColumns returned goes on the page
StreamlitDrawn(ss, reset, n_stocks, total_pages, page, start_idx, end_idx, drawn) ==
    /\ session_state' = ss
    /\ pc' = "idle"
    /\ view' = View(TRUE, reset, n_stocks, total_pages, page, start_idx, end_idx,
                    <<page = 1, page = total_pages>>)
    /\ shown' = drawn.columns
    /\ cache' = drawn.cache

\* page indices and the chart row
StreamlitCharts(ss, w, reset, selected_period, stocks, total_pages, page, start_idx) ==
    StreamlitDrawn(ss, reset, Len(stocks), total_pages, page, start_idx,
        Min(start_idx + CHARTS_PER_PAGE, Len(stocks)),
        DrawColumns(StreamlitApp, cache,
            StreamlitSlots(stocks, start_idx,
                           Min(start_idx + CHARTS_PER_PAGE, Len(stocks))),
            selected_period, w.selected_interval))

\* the pagination controls, then the charts
StreamlitPage(ss, w, reset, selected_period, stocks, total_pages, page) ==
    IF w.clicked = "prev"
    THEN StreamlitAbort(ss, reset, Len(stocks), total_pages, page, page - 1)
    ELSE IF w.clicked = "next"
    THEN StreamlitAbort(ss, reset, Len(stocks), total_pages, page, page + 1)
    ELSE StreamlitCharts(ss, w, reset, selected_period, stocks, total_pages, page,
                         (page - 1) * CHARTS_PER_PAGE)

StreamlitBody(w, reset, selected_period, stocks, page) ==
    StreamlitPage(Remember(session_state, w, selected_period, page), w, reset,
                  selected_period, stocks, Ceil(Len(stocks), CHARTS_PER_PAGE), page)

StreamlitSidebar(w, selected_period, changed) ==
    StreamlitBody(w, changed, selected_period,
                  get_stocks_by_industry(w.selected_industry, w.search_term),
                  PageAfterSidebar(session_state, changed))

\* the whole script with the widgets returning w
StreamlitRun(w) ==
    /\ widgets' = w
    /\ UNCHANGED <<app, v_call>>
    /\ StreamlitSidebar(w,
          validate_period_interval(w.period_choice, w.selected_interval),
          FilterChanged(session_state, w,
              validate_period_interval(w.period_choice, w.selected_interval)))

----------------------------------------------------------------------------
(* lw_chart.py: one script run *)

LW_CHARTS_PER_PAGE == 10

\* the <<symbol, column>> pairs of `for i in range(start_idx, end_idx, 2)`
LwSlots(stocks, start_idx, end_idx) ==
    IF start_idx >= end_idx THEN << >>
    ELSE [k \in 1..(end_idx - start_idx) |->
            <<stocks[start_idx + k], IF k % 2 = 1 THEN 1 ELSE 2>>]

\* `if previous_table != selected_table`, previous_table defaulting to the selection
TableChanged(ss, selected_table) ==
    Get(ss, "previous_table", selected_table) # selected_table

\* current_page when the page indices are computed
LwPageAfterTable(ss, changed) ==
    IF changed THEN 1
    ELSE IF Has(ss, "current_page") THEN ss["current_page"]
    ELSE 1

\* the two buttons under the charts: no rerun, the new page shows on the next run
LwAfterButtons(page, total_pages, clicked) ==
    IF clicked = "prev" /\ page > 1 THEN page - 1
    ELSE IF clicked = "next" /\ page < total_pages THEN page + 1
    ELSE page

LwDrawn(w, reset, n_stocks, total_pages, page, start_idx, end_idx, drawn) ==
    /\ session_state' =
          Set(Set(session_state, "previous_table", w.selected_table),
              "current_page", LwAfterButtons(page, total_pages, w.clicked))
    /\ pc' = "idle"
    /\ view' = View(TRUE, reset, n_stocks, total_pages, page, start_idx, end_idx,
                    <<FALSE, FALSE>>)
    /\ shown' = drawn.columns
    /\ cache' = drawn.cache

LwCharts(w, reset, stocks, page, start_idx, end_idx) ==
    LwDrawn(w, reset, Len(stocks), Ceil(Len(stocks), LW_CHARTS_PER_PAGE), page,
            start_idx, end_idx,
            DrawColumns(LwChart, cache, LwSlots(stocks, start_idx, end_idx), "YTD", "Daily"))

LwPage(w, reset, stocks, page) ==
    LwCharts(w, reset, stocks, page, (page - 1) * LW_CHARTS_PER_PAGE,
             Min((page - 1) * LW_CHARTS_PER_PAGE + LW_CHARTS_PER_PAGE, Len(stocks)))

\* the whole script with the widgets returning w
LwRun(w) ==
    /\ widgets' = w
    /\ UNCHANGED <<app, v_call>>
    /\ LwPage(w, TableChanged(session_state, w.selected_table),
              TableRows(w.selected_table),
              LwPageAfterTable(session_state,
                               TableChanged(session_state, w.selected_table)))

----------------------------------------------------------------------------
(* The user's gestures; each starts one script run *)

\* the intervals and periods the user picks among
UserIntervals == {"Daily", "Weekly"}
UserPeriods == {"YTD", "1Y"}

InSeq(x, sq) == \E i \in 1..Len(sq) : sq[i] = x

\* the browser opens the page: the first run, every widget at its default
OpenPage ==
    /\ pc = "start"
    /\ IF app = StreamlitApp
       THEN StreamlitRun([NoWidgets EXCEPT
                !.selected_industry = Industries[1],
                !.selected_interval = "Daily",
                !.period_choice = default_period("Daily")])
       ELSE LwRun([NoWidgets EXCEPT !.selected_table = Tables[1]])

ChangeIndustry ==
    /\ app = StreamlitApp /\ pc = "idle"
    /\ \E i \in 1..Len(Industries) :
         /\ Industries[i] # widgets.selected_industry
         /\ StreamlitRun([widgets EXCEPT !.selected_industry = Industries[i],
                                         !.clicked = ""])

\* a new interval replaces the period box, so both are picked together
ChangeSettings ==
    /\ app = StreamlitApp /\ pc = "idle"
    /\ \E interval \in UserIntervals, period \in UserPeriods :
         /\ InSeq(period, period_options(interval))
         /\ <<interval, period>> # <<widgets.selected_interval, widgets.period_choice>>
         /\ StreamlitRun([widgets EXCEPT !.selected_interval = interval,
                                         !.period_choice = period,
                                         !.clicked = ""])

ChangeSearch ==
    /\ app = StreamlitApp /\ pc = "idle"
    /\ \E term \in SearchTerms :
         /\ term # widgets.search_term
         /\ StreamlitRun([widgets EXCEPT !.search_term = term, !.clicked = ""])

\* a button can be clicked only where the last run drew it enabled
ClickPrevious ==
    /\ app = StreamlitApp /\ pc = "idle"
    /\ ~view.prev_disabled
    /\ StreamlitRun([widgets EXCEPT !.clicked = "prev"])

ClickNext ==
    /\ app = StreamlitApp /\ pc = "idle"
    /\ ~view.next_disabled
    /\ session_state["current_page"] < MaxPage
    /\ StreamlitRun([widgets EXCEPT !.clicked = "next"])

\* the run st.rerun() asked for: same widgets, no button pressed
Rerun ==
    /\ app = StreamlitApp /\ pc = "rerun"
    /\ StreamlitRun([widgets EXCEPT !.clicked = ""])

ChangeTable ==
    /\ app = LwChart /\ pc = "idle"
    /\ \E i \in 1..Len(Tables) :
         /\ Tables[i] # widgets.selected_table
         /\ LwRun([widgets EXCEPT !.selected_table = Tables[i], !.clicked = ""])

LwClickPrevious ==
    /\ app = LwChart /\ pc = "idle"
    /\ LwRun([widgets EXCEPT !.clicked = "prev"])

LwClickNext ==
    /\ app = LwChart /\ pc = "idle"
    /\ LwRun([widgets EXCEPT !.clicked = "next"])

Next ==
    \/ OpenPage
    \/ ChangeIndustry
    \/ ChangeSettings
    \/ ChangeSearch
    \/ ClickPrevious
    \/ ClickNext
    \/ Rerun
    \/ ChangeTable
    \/ LwClickPrevious
    \/ LwClickNext

Spec == Init /\ [][Next]_vars

----------------------------------------------------------------------------
(* SpecValidate: validate_period_interval on any period and interval *)

AnyPeriods == DOMAIN TIME_PERIODS \cup {"1D", "5D", "10Y", "ALL"}
AnyIntervals == DOMAIN INTERVALS \cup {"Hourly", "day"}

InitValidate == Init /\ app = StreamlitApp

Validate ==
    /\ v_call.pass = 0
    /\ \E period \in AnyPeriods, interval \in AnyIntervals :
         v_call' = [period |-> period, interval |-> interval,
                    result |-> validate_period_interval(period, interval),
                    pass |-> 1]
    /\ UNCHANGED <<app, session_state, widgets, pc, view, shown, cache>>

\* the result validated again, as the next run does with an unchanged selection
Revalidate ==
    /\ v_call.pass = 1
    /\ v_call' = [period |-> v_call.result, interval |-> v_call.interval,
                  result |-> validate_period_interval(v_call.result, v_call.interval),
                  pass |-> 2]
    /\ UNCHANGED <<app, session_state, widgets, pc, view, shown, cache>>

NextValidate == Validate \/ Revalidate

SpecValidate == InitValidate /\ [][NextValidate]_vars

----------------------------------------------------------------------------
(* Claims *)

\* a column whose fetch returned status 200 with n bars
FetchedBars(e) == e.outcome.kind = "response" /\ e.outcome.status = HTTP_OK

FetchFailed(e) ==
    \/ e.outcome.kind = "raise"
    \/ e.outcome.kind = "response" /\ e.outcome.status # HTTP_OK

\* C1: a fetch of at least 2 bars whose second-to-last close is not zero reports
\* current_price = the last close, prev_price = the second-to-last close,
\* daily_change = (current_price - prev_price) / prev_price * 100 (closes 100
\* then 110 give 10) and volume = the last bar's volume.
C1_ChangeOfLastTwoBars ==
    \A i \in DOMAIN shown :
        LET e == shown[i]
            b == e.outcome.bars
            n == Len(b)
        IN (FetchedBars(e) /\ n >= 2 /\ b[n - 1].close # 0) =>
              /\ ~e.result.is_none
              /\ e.result.current_price = b[n].close
              /\ e.result.prev_price = b[n - 1].close
              /\ e.result.volume = b[n].volume
              /\ e.result.daily_change.kind = "num"
              /\ e.result.daily_change.num * b[n - 1].close
                   = (b[n].close - b[n - 1].close) * 100 * e.result.daily_change.den
              /\ (b[n - 1].close = 100 /\ b[n].close = 110) =>
                    e.result.daily_change = [kind |-> "num", num |-> 10, den |-> 1]

C1_Witness ==
    \E i \in DOMAIN shown :
        /\ FetchedBars(shown[i])
        /\ Len(shown[i].outcome.bars) = 3
        /\ shown[i].outcome.bars[1].close = 110
        /\ shown[i].outcome.bars[2].close = 100
        /\ shown[i].outcome.bars[3].close = 110
        /\ shown[i].outcome.bars[2].volume # shown[i].outcome.bars[3].volume
        /\ shown[i].result.daily_change = [kind |-> "num", num |-> 10, den |-> 1]
        /\ shown[i].display = "chart"

\* C2: a fetch of exactly 1 bar with close c succeeds with current_price = c,
\* prev_price = c and daily_change = 0.
C2_SingleBarIsZeroChange ==
    \A i \in DOMAIN shown :
        LET e == shown[i]
        IN (FetchedBars(e) /\ Len(e.outcome.bars) = 1) =>
              /\ ~e.result.is_none
              /\ e.result.current_price = e.outcome.bars[1].close
              /\ e.result.prev_price = e.outcome.bars[1].close
              /\ e.result.daily_change = [kind |-> "num", num |-> 0, den |-> 1]

\* C3: a fetch of at least 2 bars whose second-to-last close is zero reports
\* daily_change = 0, and no error or infinite or undefined value.
C3_ZeroPreviousCloseIsZeroChange ==
    \A i \in DOMAIN shown :
        LET e == shown[i]
            n == Len(e.outcome.bars)
        IN (FetchedBars(e) /\ n >= 2 /\ e.outcome.bars[n - 1].close = 0) =>
              /\ ~e.result.is_none
              /\ e.result.daily_change = [kind |-> "num", num |-> 0, den |-> 1]

\* C4: a fetch that returns 0 bars makes load_chart_data return None, and the
\* caller builds no chart for that stock.
C4_EmptyFetchIsNoData ==
    \A i \in DOMAIN shown :
        (FetchedBars(shown[i]) /\ Len(shown[i].outcome.bars) = 0) =>
            /\ shown[i].result.is_none
            /\ shown[i].display # "chart"

C4_Witness ==
    \E i \in DOMAIN shown :
        /\ FetchedBars(shown[i])
        /\ Len(shown[i].outcome.bars) = 0
        /\ shown[i].attempts = 1
        /\ shown[i].display \in {"warning", "blank"}

\* C5: whatever a fetch comes to, the run goes on: every stock of the page has
\* its column, each column whose load returned None shows the "No data
\* available" notice, and the pagination controls are drawn.
C5_FailedLoadsAreNoticed ==
    view.computed =>
        /\ Len(shown) = (IF view.start_idx < view.end_idx
                         THEN view.end_idx - view.start_idx ELSE 0)
        /\ view.controls
        /\ \A i \in DOMAIN shown :
              shown[i].result.is_none => shown[i].display = "warning"

\* C6: one load makes at most 3 fetch attempts, and at least 2 when the first
\* attempt failed.
C6_FailedFetchIsRetried ==
    \A i \in DOMAIN shown :
        /\ shown[i].attempts <= 3
        /\ FetchFailed(shown[i]) => shown[i].attempts >= 2

\* equal bars were given equal price, volume and change, and each column shows
\* what the memo holds for its arguments
SameBarsSameMetrics ==
    /\ \A x \in cache, y \in cache :
          (/\ ~x.value.is_none
           /\ ~y.value.is_none
           /\ x.value.chart_data = y.value.chart_data) => x.value = y.value
    /\ \A i \in DOMAIN shown :
          /\ Cached(cache, shown[i].key)
          /\ shown[i].result = CacheGet(cache, shown[i].key)

Remembered ==
    IF app = StreamlitApp
    THEN /\ session_state["previous_industry"] = widgets.selected_industry
         /\ session_state["previous_search"] = widgets.search_term
         /\ session_state["last_selected_period"]
              = validate_period_interval(widgets.period_choice, widgets.selected_interval)
    ELSE session_state["previous_table"] = widgets.selected_table

\* C8: in a run where a filter (industry, search term, validated period; the
\* table in lw_chart) differs from the remembered one, current_page is 1 when
\* the page indices are computed, and every run leaves the current selection
\* remembered.
C8_FilterChangeResetsPage ==
    pc # "start" =>
        /\ Remembered
        /\ (view.computed /\ view.reset) => (view.page = 1 /\ view.start_idx = 0)

C8_Witness ==
    /\ view.computed
    /\ view.reset
    /\ view.page_before = 2
    /\ view.page = 1
    /\ Len(shown) > 0

\* C9: the validated period is valid for the interval (Weekly: 1Y, 2Y, 5Y or
\* MAX, else 1Y; Monthly: 5Y or MAX, else 5Y; any other interval: the period
\* itself), a valid period comes back unchanged, and validating the result
\* again changes nothing.
C9_ValidatedPeriodFitsInterval ==
    v_call.pass >= 1 =>
        /\ v_call.interval = "Weekly" =>
              /\ v_call.result \in {"1Y", "2Y", "5Y", "MAX"}
              /\ v_call.period \notin {"1Y", "2Y", "5Y", "MAX"} => v_call.result = "1Y"
              /\ v_call.period \in {"1Y", "2Y", "5Y", "MAX"} => v_call.result = v_call.period
        /\ v_call.interval = "Monthly" =>
              /\ v_call.result \in {"5Y", "MAX"}
              /\ v_call.period \notin {"5Y", "MAX"} => v_call.result = "5Y"
              /\ v_call.period \in {"5Y", "MAX"} => v_call.result = v_call.period
        /\ v_call.interval \notin {"Weekly", "Monthly"} => v_call.result = v_call.period
        /\ v_call.pass = 2 => v_call.result = v_call.period

C9_Witness ==
    /\ v_call.pass = 2
    /\ v_call.interval = "Monthly"
    /\ v_call.period = "5Y"
    /\ v_call.result = "5Y"

\* C10: current_page stays within 1..max(1, total_pages), total_pages being
\* ceil(len(stocks) / CHARTS_PER_PAGE) of the list the last run worked on.
C10_PageWithinRange ==
    Has(session_state, "current_page") =>
        /\ session_state["current_page"] >= 1
        /\ session_state["current_page"]
             <= (IF view.total_pages > 1 THEN view.total_pages ELSE 1)

====
